---------------------------- MODULE Spec2Model ----------------------------
(***************************************************************************)
(* Model of tantivy's fast field writers (src/fastfield/writer.rs):        *)
(* FastFieldsWriter, IntFastFieldWriter and WriterFastFieldAccessProvider. *)
(*                                                                         *)
(* A u64 is a tuple of four 16-bit limbs, most significant first, so that  *)
(* u64::MAX and the i64/f64 encodings keep their 64-bit values.  Counts    *)
(* (val_count, num_vals, document ids) are small and kept as naturals.     *)
(***************************************************************************)
EXTENDS Integers, Sequences, FiniteSets, TLC

(***************************************************************************)
(* Bounds of the model.                                                    *)
(***************************************************************************)
\* values an accumulator receives in the ingestion specification
MaxVals == 3
\* documents of the remapping specification
MaxMapDocs == 4
\* fields of a schema and documents of a writer group
MaxFields == 2
MaxGroupDocs == 2
\* values given to the accumulators of a group one by one
MaxDirectVals == 1

(***************************************************************************)
(* u64 values.                                                             *)
(***************************************************************************)
LimbBase == 2^16
LimbMax == LimbBase - 1
HalfLimb == 2^15

MkU64(n) == <<0, 0, n \div LimbBase, n % LimbBase>>

U64_MAX == <<LimbMax, LimbMax, LimbMax, LimbMax>>

\* a < b on u64
U64Lt(a, b) ==
    \E i \in 1..4 : a[i] < b[i] /\ \A j \in 1..(i - 1) : a[j] = b[j]

U64Gt(a, b) == U64Lt(b, a)

U64Le(a, b) == ~U64Lt(b, a)

\* `val as u64` of an i64 (two's complement); |val| < 2^31 in this model
AsU64(val) ==
    IF val >= 0
    THEN MkU64(val)
    ELSE <<LimbMax, LimbMax, LimbMax - ((-val - 1) \div LimbBase),
           LimbMax - ((-val - 1) % LimbBase)>>

\* bits ^ (1 << 63)
XorHighestBit(bits) ==
    [bits EXCEPT ![1] = IF @ >= HalfLimb THEN @ - HalfLimb ELSE @ + HalfLimb]

\* !bits
NotBits(bits) == [i \in 1..4 |-> LimbMax - bits[i]]

\* common::i64_to_u64
i64_to_u64(val) == XorHighestBit(AsU64(val))

\* common::f64_to_u64; an f64 is given by its IEEE-754 bits
f64_to_u64(bits) ==
    IF bits[1] < HalfLimb THEN XorHighestBit(bits) ELSE NotBits(bits)

\* bits of the f64 samples 0.0, 1.0, 2.5 and -1.0
F64Zero == <<0, 0, 0, 0>>
F64One == <<16368, 0, 0, 0>>
F64TwoAndHalf == <<16388, 0, 0, 0>>
F64MinusOne == <<49136, 0, 0, 0>>

(***************************************************************************)
(* DatePrecision and DateTime (timestamps in microseconds).                *)
(***************************************************************************)
DatePrecisions == {"Seconds", "Milliseconds", "Microseconds"}

\* Rust's integer division, which truncates toward zero
TruncDiv(a, b) == IF a >= 0 THEN a \div b ELSE -((-a) \div b)

\* DateTime::truncate
truncate(micros, precision) ==
    CASE precision = "Seconds" -> TruncDiv(micros, 1000000) * 1000000
      [] precision = "Milliseconds" -> TruncDiv(micros, 1000) * 1000
      [] OTHER -> micros

(***************************************************************************)
(* schema::Value and fastfield::value_to_u64.                              *)
(***************************************************************************)
I64Val(v) == [tag |-> "I64", i |-> v, u |-> MkU64(0)]
U64Val(v) == [tag |-> "U64", i |-> 0, u |-> v]
F64Val(bits) == [tag |-> "F64", i |-> 0, u |-> bits]
BoolVal(b) == [tag |-> "Bool", i |-> IF b THEN 1 ELSE 0, u |-> MkU64(0)]
DateVal(micros) == [tag |-> "Date", i |-> micros, u |-> MkU64(0)]

value_to_u64(v) ==
    CASE v.tag = "U64" -> v.u
      [] v.tag = "I64" -> i64_to_u64(v.i)
      [] v.tag = "F64" -> f64_to_u64(v.u)
      [] v.tag = "Bool" -> MkU64(v.i)
      [] v.tag = "Date" -> i64_to_u64(v.i)

(***************************************************************************)
(* Option<T> is a sequence of length 0 (None) or 1 (Some).                 *)
(***************************************************************************)
None == <<>>
Some(x) == <<x>>
IsSome(o) == o # <<>>
Unwrap(o) == o[1]

(***************************************************************************)
(* schema::FieldEntry, Schema and Document.  A Field is the position of    *)
(* its entry in the schema, counted from 0.                                *)
(***************************************************************************)
FieldTypes ==
    {"I64", "U64", "F64", "Bool", "Date", "Facet", "Str", "Bytes", "JsonObject"}

Cardinalities == {"None", "SingleValue", "MultiValues"}

\* cardinality: get_fastfield_cardinality() of the numeric or date options;
\* fast: is_fast() of the text or bytes options
Entry(t, c, f, p) == [type |-> t, cardinality |-> c, fast |-> f, precision |-> p]

Numeric(t, c) == Entry(t, c, c # "None", "Seconds")
Date(c, p) == Entry("Date", c, c # "None", p)
Facet(c) == Entry("Facet", c, FALSE, "Seconds")
Text(t, f) == Entry(t, "None", f, "Seconds")

\* Schema::fields: (Field, FieldEntry) pairs in declaration order
fields(sch) == [i \in 1..Len(sch) |-> [field |-> i - 1, entry |-> sch[i]]]

\* Document::get_first
get_first(doc, field) ==
    LET vs == SelectSeq(doc, LAMBDA fv : fv.field = field)
    IN  IF vs = <<>> THEN None ELSE Some(vs[1].value)

(***************************************************************************)
(* BlockedBitpacker: the values in the order they were added.              *)
(***************************************************************************)
Panic == [panicked |-> TRUE, value |-> MkU64(0)]
Returned(v) == [panicked |-> FALSE, value |-> v]

BlockedBitpacker_new == <<>>
BlockedBitpacker_add(vals, val) == Append(vals, val)
BlockedBitpacker_get(vals, idx) ==
    IF idx + 1 \in DOMAIN vals THEN Returned(vals[idx + 1]) ELSE Panic
BlockedBitpacker_iter(vals) == vals
\* bytes held: a fixed part and eight bytes for every value
BlockedBitpacker_mem_usage(vals) == 64 + 8 * Len(vals)

(***************************************************************************)
(* IntFastFieldWriter.                                                     *)
(***************************************************************************)
\* IntFastFieldWriter::new with the minimum starting at 0
IntFastFieldWriter_new_zero_min(field, precision_opt) ==
    [field |-> field,
     precision_opt |-> precision_opt,
     vals |-> BlockedBitpacker_new,
     val_count |-> 0,
     val_if_missing |-> MkU64(0),
     val_min |-> MkU64(0),
     val_max |-> MkU64(0)]

IntFastFieldWriter_new(field, precision_opt) ==
    [field |-> field,
     precision_opt |-> precision_opt,
     vals |-> BlockedBitpacker_new,
     val_count |-> 0,
     val_if_missing |-> MkU64(0),
     val_min |-> U64_MAX,
     val_max |-> MkU64(0)]

set_val_if_missing(w, val_if_missing) ==
    [w EXCEPT !.val_if_missing = val_if_missing]

IntFastFieldWriter_mem_usage(w) == BlockedBitpacker_mem_usage(w.vals)

\* add_val with the minimum updated only when the maximum was not
add_val_else_if(w, val) ==
    [w EXCEPT !.vals = BlockedBitpacker_add(@, val),
              !.val_max = IF U64Gt(val, @) THEN val ELSE @,
              !.val_min = IF ~U64Gt(val, w.val_max) /\ U64Lt(val, @) THEN val ELSE @,
              !.val_count = @ + 1]

add_val(w, val) ==
    [w EXCEPT !.vals = BlockedBitpacker_add(@, val),
              !.val_max = IF U64Gt(val, @) THEN val ELSE @,
              !.val_min = IF U64Lt(val, @) THEN val ELSE @,
              !.val_count = @ + 1]

\* document_value that encodes a date as it is
document_value_no_truncate(w, doc) ==
    LET first == get_first(doc, w.field)
    IN  IF IsSome(first) THEN value_to_u64(Unwrap(first)) ELSE w.val_if_missing

\* document_value that takes the last value the document has for the field
document_value_last(w, doc) ==
    LET vs == SelectSeq(doc, LAMBDA fv : fv.field = w.field)
    IN  IF vs # <<>>
        THEN LET v == vs[Len(vs)].value
             IN  IF w.precision_opt # None /\ v.tag = "Date"
                 THEN i64_to_u64(truncate(v.i, Unwrap(w.precision_opt)))
                 ELSE value_to_u64(v)
        ELSE w.val_if_missing

\* the value IntFastFieldWriter::add_document records for a document
document_value(w, doc) ==
    LET first == get_first(doc, w.field)
    IN  IF IsSome(first)
        THEN LET v == Unwrap(first)
             IN  IF w.precision_opt # None /\ v.tag = "Date"
                 THEN i64_to_u64(truncate(v.i, Unwrap(w.precision_opt)))
                 ELSE value_to_u64(v)
        ELSE w.val_if_missing

\* add_document that records nothing for a document without the field
add_document_skip_missing(w, doc) ==
    IF IsSome(get_first(doc, w.field)) THEN add_val(w, document_value(w, doc)) ELSE w

IntFastFieldWriter_add_document(w, doc) == add_val(w, document_value(w, doc))

(***************************************************************************)
(* FastFieldStats and WriterFastFieldAccessProvider.                       *)
(***************************************************************************)
\* the stats without the normalisation of the empty accumulator
stats_raw(w) ==
    [min_value |-> w.val_min, max_value |-> w.val_max, num_vals |-> w.val_count]

\* the stats with the extremes reset also when they are equal
stats_of_ge(w) ==
    LET inverted == ~U64Lt(w.val_min, w.val_max)
    IN  [min_value |-> IF inverted THEN MkU64(0) ELSE w.val_min,
         max_value |-> IF inverted THEN MkU64(0) ELSE w.val_max,
         num_vals |-> w.val_count]

\* the stats IntFastFieldWriter::serialize computes
stats_of(w) ==
    LET inverted == U64Gt(w.val_min, w.val_max)
    IN  [min_value |-> IF inverted THEN MkU64(0) ELSE w.val_min,
         max_value |-> IF inverted THEN MkU64(0) ELSE w.val_max,
         num_vals |-> w.val_count]

\* the accessor IntFastFieldWriter::serialize hands to the serializer
accessor_of(w, doc_id_map) ==
    [field |-> w.field, doc_id_map |-> doc_id_map, vals |-> w.vals,
     stats |-> stats_of(w)]

\* DocIdMapping::get_old_doc_id, DocIdMapping::iter_old_doc_ids
get_old_doc_id(map, new_doc_id) ==
    IF new_doc_id + 1 \in DOMAIN map THEN Returned(map[new_doc_id + 1]) ELSE Panic
iter_old_doc_ids(map) == map

\* an index no buffer or mapping of the model reaches
BeyondAnyLen == 2^30

\* `doc as u32`: the low 32 bits of a u64
as_u32(doc) == <<0, 0, doc[3], doc[4]>>

\* `doc as usize` (64-bit) as an index
as_usize(doc) ==
    IF doc[1] = 0 /\ doc[2] = 0 /\ doc[3] < HalfLimb
    THEN doc[3] * LimbBase + doc[4]
    ELSE BeyondAnyLen

\* get_val that reads the buffer at the new document id
get_val_unmapped(acc, doc) == BlockedBitpacker_get(acc.vals, as_usize(doc))

\* Column::get_val; doc is a u64
get_val(acc, doc) ==
    IF IsSome(acc.doc_id_map)
    THEN LET old == get_old_doc_id(Unwrap(acc.doc_id_map), as_usize(as_u32(doc)))
         IN  IF old.panicked THEN Panic ELSE BlockedBitpacker_get(acc.vals, old.value)
    ELSE BlockedBitpacker_get(acc.vals, as_usize(doc))

\* the values a lazy map over old ids yields before the first read that panics
RECURSIVE MapGet(_, _)
MapGet(vals, old_ids) ==
    IF old_ids = <<>>
    THEN [panicked |-> FALSE, yielded |-> <<>>]
    ELSE LET r == BlockedBitpacker_get(vals, Head(old_ids))
         IN  IF r.panicked
             THEN [panicked |-> TRUE, yielded |-> <<>>]
             ELSE LET rest == MapGet(vals, Tail(old_ids))
                  IN  [rest EXCEPT !.yielded = <<r.value>> \o @]

\* iter that walks the buffer in its own order
iter_unmapped(acc) == [panicked |-> FALSE, yielded |-> BlockedBitpacker_iter(acc.vals)]

\* Column::iter, run to its end
iter(acc) ==
    IF IsSome(acc.doc_id_map)
    THEN MapGet(acc.vals, iter_old_doc_ids(Unwrap(acc.doc_id_map)))
    ELSE [panicked |-> FALSE, yielded |-> BlockedBitpacker_iter(acc.vals)]

min_value(acc) == acc.stats.min_value
max_value(acc) == acc.stats.max_value
num_vals(acc) == acc.stats.num_vals

(***************************************************************************)
(* The writers of the other modules, as far as the group uses them: their  *)
(* field, how they were created, and the documents they received.          *)
(***************************************************************************)
MultiValuedFastFieldWriter_new(field, fast_field_type, precision_opt) ==
    [field |-> field, fast_field_type |-> fast_field_type,
     precision_opt |-> precision_opt, num_docs |-> 0]

MultiValuedFastFieldWriter_add_document(w, doc) == [w EXCEPT !.num_docs = @ + 1]

BytesFastFieldWriter_new(field) == [field |-> field, num_docs |-> 0]

BytesFastFieldWriter_add_document(w, doc) == [w EXCEPT !.num_docs = @ + 1]

\* bytes held: they grow with the documents received
MultiValuedFastFieldWriter_mem_usage(w) == 8 * w.num_docs

BytesFastFieldWriter_mem_usage(w) == 8 * w.num_docs

\* Iterator::sum
RECURSIVE Sum(_)
Sum(ns) == IF ns = <<>> THEN 0 ELSE Head(ns) + Sum(Tail(ns))

(***************************************************************************)
(* FastFieldsWriter.                                                       *)
(***************************************************************************)
\* fast_field_default_value with the date fields left to the last arm
fast_field_default_value_no_date(field_entry) ==
    CASE field_entry.type = "I64" -> i64_to_u64(0)
      [] field_entry.type = "F64" -> f64_to_u64(F64Zero)
      [] OTHER -> MkU64(0)

fast_field_default_value(field_entry) ==
    CASE field_entry.type \in {"I64", "Date"} -> i64_to_u64(0)
      [] field_entry.type = "F64" -> f64_to_u64(F64Zero)
      [] OTHER -> MkU64(0)

EmptyGroup ==
    [term_id_writers |-> <<>>, single_value_writers |-> <<>>,
     multi_values_writers |-> <<>>, bytes_value_writers |-> <<>>]

\* from_schema_field that gives a single-valued date field a multi-value
\* writer as well
from_schema_field_date_twice(g, field, field_entry) ==
    LET t == field_entry.type
        c == field_entry.cardinality
        precision_opt == IF t = "Date" THEN Some(field_entry.precision) ELSE None
    IN  CASE t = "Date" /\ c = "SingleValue" ->
               [g EXCEPT !.single_value_writers = Append(@,
                   set_val_if_missing(IntFastFieldWriter_new(field, precision_opt),
                                      fast_field_default_value(field_entry))),
                         !.multi_values_writers = Append(@,
                   MultiValuedFastFieldWriter_new(field, "Numeric", precision_opt))]
          [] t \in {"I64", "U64", "F64", "Bool"} /\ c = "SingleValue" ->
               [g EXCEPT !.single_value_writers = Append(@,
                   set_val_if_missing(IntFastFieldWriter_new(field, precision_opt),
                                      fast_field_default_value(field_entry)))]
          [] t \in {"I64", "U64", "F64", "Bool", "Date"} /\ c = "MultiValues" ->
               [g EXCEPT !.multi_values_writers = Append(@,
                   MultiValuedFastFieldWriter_new(field, "Numeric", precision_opt))]
          [] t = "Facet" ->
               [g EXCEPT !.term_id_writers = Append(@,
                   MultiValuedFastFieldWriter_new(field, "Facet", None))]
          [] t = "Str" /\ field_entry.fast ->
               [g EXCEPT !.term_id_writers = Append(@,
                   MultiValuedFastFieldWriter_new(field, "String", None))]
          [] t = "Bytes" /\ field_entry.fast ->
               [g EXCEPT !.bytes_value_writers = Append(@,
                   BytesFastFieldWriter_new(field))]
          [] OTHER -> g

\* from_schema_field that looks at the declared cardinality of a facet field
from_schema_field_facet_by_cardinality(g, field, field_entry) ==
    LET t == field_entry.type
        c == field_entry.cardinality
        precision_opt == IF t = "Date" THEN Some(field_entry.precision) ELSE None
    IN  CASE t \in {"I64", "U64", "F64", "Bool", "Date"} /\ c = "SingleValue" ->
               [g EXCEPT !.single_value_writers = Append(@,
                   set_val_if_missing(IntFastFieldWriter_new(field, precision_opt),
                                      fast_field_default_value(field_entry)))]
          [] t \in {"I64", "U64", "F64", "Bool", "Date"} /\ c = "MultiValues" ->
               [g EXCEPT !.multi_values_writers = Append(@,
                   MultiValuedFastFieldWriter_new(field, "Numeric", precision_opt))]
          [] t = "Facet" /\ c # "None" ->
               [g EXCEPT !.term_id_writers = Append(@,
                   MultiValuedFastFieldWriter_new(field, "Facet", None))]
          [] t = "Str" /\ field_entry.fast ->
               [g EXCEPT !.term_id_writers = Append(@,
                   MultiValuedFastFieldWriter_new(field, "String", None))]
          [] t = "Bytes" /\ field_entry.fast ->
               [g EXCEPT !.bytes_value_writers = Append(@,
                   BytesFastFieldWriter_new(field))]
          [] OTHER -> g

\* one iteration of the loop of from_schema
from_schema_field(g, field, field_entry) ==
    LET t == field_entry.type
        c == field_entry.cardinality
        precision_opt == IF t = "Date" THEN Some(field_entry.precision) ELSE None
    IN  CASE t \in {"I64", "U64", "F64", "Bool", "Date"} /\ c = "SingleValue" ->
               [g EXCEPT !.single_value_writers = Append(@,
                   set_val_if_missing(IntFastFieldWriter_new(field, precision_opt),
                                      fast_field_default_value(field_entry)))]
          [] t \in {"I64", "U64", "F64", "Bool", "Date"} /\ c = "MultiValues" ->
               [g EXCEPT !.multi_values_writers = Append(@,
                   MultiValuedFastFieldWriter_new(field, "Numeric", precision_opt))]
          [] t = "Facet" ->
               [g EXCEPT !.term_id_writers = Append(@,
                   MultiValuedFastFieldWriter_new(field, "Facet", None))]
          [] t = "Str" /\ field_entry.fast ->
               [g EXCEPT !.term_id_writers = Append(@,
                   MultiValuedFastFieldWriter_new(field, "String", None))]
          [] t = "Bytes" /\ field_entry.fast ->
               [g EXCEPT !.bytes_value_writers = Append(@,
                   BytesFastFieldWriter_new(field))]
          [] OTHER -> g

RECURSIVE from_schema_loop(_, _, _)
from_schema_loop(g, fs, i) ==
    IF i > Len(fs)
    THEN g
    ELSE from_schema_loop(from_schema_field(g, fs[i].field, fs[i].entry), fs, i + 1)

from_schema(sch) == from_schema_loop(EmptyGroup, fields(sch), 1)

\* the position in writers of the first writer of the field, 0 when none
find(writers, field) ==
    IF \E i \in DOMAIN writers : writers[i].field = field
    THEN CHOOSE i \in DOMAIN writers :
             /\ writers[i].field = field
             /\ \A j \in 1..(i - 1) : writers[j].field # field
    ELSE 0

(***************************************************************************)
(* State.                                                                  *)
(*   schema                the schema the group was built from             *)
(*   term_id_writers ...   the four collections of FastFieldsWriter         *)
(*   consumed              the group was moved into FastFieldsWriter::serialize *)
(*   calls                 the writers the last serialize call pushed to   *)
(*                         the serializer, in order, with each outcome     *)
(*   result                what the last serialize call returned           *)
(*   accessors             the accessors the serializer received in it     *)
(*   n_docs, n_vals        per accumulator: add_document and direct        *)
(*                         add_val calls so far (history)                  *)
(*   recorded              per accumulator: the values handed to add_val,  *)
(*                         in call order (history)                         *)
(*   last_doc              the document of the last add_document call, None *)
(*                         when the last addition was a direct add_val     *)
(*   reported              what mem_usage returned, when it was the last   *)
(*                         call made                                       *)
(*   group_docs            FastFieldsWriter::add_document calls so far     *)
(*                         (history)                                       *)
(*   serialized            fields whose accumulator was serialized (history) *)
(*   n_serialize           FastFieldsWriter::serialize calls so far (history) *)
(***************************************************************************)
VARIABLES schema, term_id_writers, single_value_writers, multi_values_writers,
          bytes_value_writers, consumed, calls, result, accessors, reported,
          n_docs, n_vals, recorded, last_doc, group_docs, serialized,
          n_serialize

writers == <<term_id_writers, single_value_writers, multi_values_writers,
             bytes_value_writers>>

vars == <<schema, term_id_writers, single_value_writers, multi_values_writers,
          bytes_value_writers, consumed, calls, result, accessors, reported,
          n_docs, n_vals, recorded, last_doc, group_docs, serialized,
          n_serialize>>

history == <<n_docs, n_vals, recorded, last_doc, group_docs>>

IoErrors == {"WriteZero", "Interrupted"}

\* FastFieldsWriter::get_field_writer and get_field_writer_mut
get_field_writer(field) ==
    LET i == find(single_value_writers, field)
    IN  IF i = 0 THEN None ELSE Some(i)

\* no serialize call is in progress: what the last one left is dropped
NoCall ==
    /\ calls' = <<>>
    /\ result' = "None"
    /\ accessors' = <<>>
    /\ reported' = None

\* FastFieldsWriter::mem_usage without the bytes writers
FastFieldsWriter_mem_usage_no_bytes ==
    Sum([i \in DOMAIN term_id_writers |->
             MultiValuedFastFieldWriter_mem_usage(term_id_writers[i])])
        + Sum([i \in DOMAIN single_value_writers |->
                 IntFastFieldWriter_mem_usage(single_value_writers[i])])
        + Sum([i \in DOMAIN multi_values_writers |->
                 MultiValuedFastFieldWriter_mem_usage(multi_values_writers[i])])

\* FastFieldsWriter::mem_usage
FastFieldsWriter_mem_usage ==
    Sum([i \in DOMAIN term_id_writers |->
             MultiValuedFastFieldWriter_mem_usage(term_id_writers[i])])
        + Sum([i \in DOMAIN single_value_writers |->
                 IntFastFieldWriter_mem_usage(single_value_writers[i])])
        + Sum([i \in DOMAIN multi_values_writers |->
                 MultiValuedFastFieldWriter_mem_usage(multi_values_writers[i])])
        + Sum([i \in DOMAIN bytes_value_writers |->
                 BytesFastFieldWriter_mem_usage(bytes_value_writers[i])])

InitWith(sch) ==
    LET g == from_schema(sch)
    IN  /\ schema = sch
        /\ term_id_writers = g.term_id_writers
        /\ single_value_writers = g.single_value_writers
        /\ multi_values_writers = g.multi_values_writers
        /\ bytes_value_writers = g.bytes_value_writers
        /\ consumed = FALSE
        /\ calls = <<>>
        /\ result = "None"
        /\ accessors = <<>>
        /\ reported = None
        /\ n_docs = [i \in DOMAIN g.single_value_writers |-> 0]
        /\ n_vals = [i \in DOMAIN g.single_value_writers |-> 0]
        /\ recorded = [i \in DOMAIN g.single_value_writers |-> <<>>]
        /\ last_doc = None
        /\ group_docs = 0
        /\ serialized = {}
        /\ n_serialize = 0

\* get_field_writer_mut(field).add_val(val)
AddVal(field, val, max) ==
    /\ ~consumed
    /\ IsSome(get_field_writer(field))
    /\ LET i == Unwrap(get_field_writer(field))
       IN  /\ single_value_writers[i].val_count < max
           /\ single_value_writers' =
                  [single_value_writers EXCEPT ![i] = add_val(@, val)]
           /\ n_vals' = [n_vals EXCEPT ![i] = @ + 1]
           /\ recorded' = [recorded EXCEPT ![i] = Append(@, val)]
    /\ last_doc' = None
    /\ NoCall
    /\ UNCHANGED <<schema, term_id_writers, multi_values_writers,
                   bytes_value_writers, consumed, n_docs, group_docs, serialized,
                   n_serialize>>

\* get_field_writer_mut(field).add_document(doc)
WriterAddDocument(field, doc, max) ==
    /\ ~consumed
    /\ IsSome(get_field_writer(field))
    /\ LET i == Unwrap(get_field_writer(field))
       IN  /\ single_value_writers[i].val_count < max
           /\ single_value_writers' =
                  [single_value_writers EXCEPT
                       ![i] = IntFastFieldWriter_add_document(@, doc)]
           /\ n_docs' = [n_docs EXCEPT ![i] = @ + 1]
           /\ recorded' = [recorded EXCEPT
                  ![i] = Append(@, document_value(single_value_writers[i], doc))]
    /\ last_doc' = Some(doc)
    /\ NoCall
    /\ UNCHANGED <<schema, term_id_writers, multi_values_writers,
                   bytes_value_writers, consumed, n_vals, group_docs, serialized,
                   n_serialize>>

\* a serialize that takes the buffer out of the accumulator
WriterSerialize_draining(field, doc_id_map, outcome) ==
    /\ ~consumed
    /\ IsSome(get_field_writer(field))
    /\ LET w == single_value_writers[Unwrap(get_field_writer(field))]
       IN  /\ accessors' = <<accessor_of(w, doc_id_map)>>
           /\ calls' = <<[kind |-> "single", field |-> w.field, outcome |-> outcome]>>
    /\ result' = outcome
    /\ reported' = None
    /\ serialized' = serialized \cup {field}
    /\ single_value_writers' =
           [single_value_writers EXCEPT
                ![Unwrap(get_field_writer(field))].vals = BlockedBitpacker_new]
    /\ UNCHANGED <<schema, term_id_writers, multi_values_writers,
                   bytes_value_writers, consumed, history, n_serialize>>

\* get_field_writer(field).serialize(serializer, doc_id_map); outcome is what
\* create_auto_detect_u64_fast_field returns
WriterSerialize(field, doc_id_map, outcome) ==
    /\ ~consumed
    /\ IsSome(get_field_writer(field))
    /\ LET w == single_value_writers[Unwrap(get_field_writer(field))]
       IN  /\ accessors' = <<accessor_of(w, doc_id_map)>>
           /\ calls' = <<[kind |-> "single", field |-> w.field, outcome |-> outcome]>>
    /\ result' = outcome
    /\ reported' = None
    /\ serialized' = serialized \cup {field}
    /\ UNCHANGED <<schema, writers, consumed, history, n_serialize>>

\* add_document that feeds only the accumulators whose field the document has
GroupAddDocument_present_only(doc, max) ==
    /\ ~consumed
    /\ group_docs < max
    /\ \A i \in DOMAIN single_value_writers : single_value_writers[i].val_count < max
    /\ \A i \in DOMAIN term_id_writers : term_id_writers[i].num_docs < max
    /\ \A i \in DOMAIN multi_values_writers : multi_values_writers[i].num_docs < max
    /\ \A i \in DOMAIN bytes_value_writers : bytes_value_writers[i].num_docs < max
    /\ term_id_writers' =
           [i \in DOMAIN term_id_writers |->
               MultiValuedFastFieldWriter_add_document(term_id_writers[i], doc)]
    /\ single_value_writers' =
           [i \in DOMAIN single_value_writers |->
               IF IsSome(get_first(doc, single_value_writers[i].field))
               THEN IntFastFieldWriter_add_document(single_value_writers[i], doc)
               ELSE single_value_writers[i]]
    /\ multi_values_writers' =
           [i \in DOMAIN multi_values_writers |->
               MultiValuedFastFieldWriter_add_document(multi_values_writers[i], doc)]
    /\ bytes_value_writers' =
           [i \in DOMAIN bytes_value_writers |->
               BytesFastFieldWriter_add_document(bytes_value_writers[i], doc)]
    /\ n_docs' = [i \in DOMAIN n_docs |-> n_docs[i] + 1]
    /\ recorded' =
           [i \in DOMAIN recorded |->
               Append(recorded[i], document_value(single_value_writers[i], doc))]
    /\ last_doc' = Some(doc)
    /\ group_docs' = group_docs + 1
    /\ NoCall
    /\ UNCHANGED <<schema, consumed, n_vals, serialized, n_serialize>>

\* FastFieldsWriter::add_document
GroupAddDocument(doc, max) ==
    /\ ~consumed
    /\ group_docs < max
    /\ \A i \in DOMAIN single_value_writers : single_value_writers[i].val_count < max
    /\ \A i \in DOMAIN term_id_writers : term_id_writers[i].num_docs < max
    /\ \A i \in DOMAIN multi_values_writers : multi_values_writers[i].num_docs < max
    /\ \A i \in DOMAIN bytes_value_writers : bytes_value_writers[i].num_docs < max
    /\ term_id_writers' =
           [i \in DOMAIN term_id_writers |->
               MultiValuedFastFieldWriter_add_document(term_id_writers[i], doc)]
    /\ single_value_writers' =
           [i \in DOMAIN single_value_writers |->
               IntFastFieldWriter_add_document(single_value_writers[i], doc)]
    /\ multi_values_writers' =
           [i \in DOMAIN multi_values_writers |->
               MultiValuedFastFieldWriter_add_document(multi_values_writers[i], doc)]
    /\ bytes_value_writers' =
           [i \in DOMAIN bytes_value_writers |->
               BytesFastFieldWriter_add_document(bytes_value_writers[i], doc)]
    /\ n_docs' = [i \in DOMAIN n_docs |-> n_docs[i] + 1]
    /\ recorded' =
           [i \in DOMAIN recorded |->
               Append(recorded[i], document_value(single_value_writers[i], doc))]
    /\ last_doc' = Some(doc)
    /\ group_docs' = group_docs + 1
    /\ NoCall
    /\ UNCHANGED <<schema, consumed, n_vals, serialized, n_serialize>>

\* FastFieldsWriter::mem_usage, called on the group
MemUsage ==
    /\ ~consumed
    /\ reported' = Some(FastFieldsWriter_mem_usage)
    /\ calls' = <<>>
    /\ result' = "None"
    /\ accessors' = <<>>
    /\ UNCHANGED <<schema, writers, consumed, history, serialized, n_serialize>>

\* the writers in the order FastFieldsWriter::serialize visits them
Tagged(kind, ws) == [i \in DOMAIN ws |-> [kind |-> kind, field |-> ws[i].field]]

\* the order with the single-value accumulators first
serialize_order_single_first ==
    Tagged("single", single_value_writers) \o Tagged("term_id", term_id_writers)
        \o Tagged("multi", multi_values_writers) \o Tagged("bytes", bytes_value_writers)

serialize_order ==
    Tagged("term_id", term_id_writers) \o Tagged("single", single_value_writers)
        \o Tagged("multi", multi_values_writers) \o Tagged("bytes", bytes_value_writers)

\* the calls of a serialize that ignores a failure and goes on
serialize_calls_continue(order, n_ok, err) ==
    [j \in 1..Len(order) |->
        [kind |-> order[j].kind, field |-> order[j].field,
         outcome |-> IF j = n_ok + 1 THEN err ELSE "Ok"]]

\* the calls FastFieldsWriter::serialize makes when the first n_ok succeed and
\* the next one, if there is one, fails with err
serialize_calls(order, n_ok, err) ==
    [j \in 1..(IF n_ok < Len(order) THEN n_ok + 1 ELSE Len(order)) |->
        [kind |-> order[j].kind, field |-> order[j].field,
         outcome |-> IF j <= n_ok THEN "Ok" ELSE err]]

serialize_result(order, n_ok, err) == IF n_ok < Len(order) THEN err ELSE "Ok"

\* the accessors of the single-value writers among the calls made
serialize_accessors(cs, doc_id_map) ==
    LET singles == SelectSeq(cs, LAMBDA c : c.kind = "single")
    IN  [j \in DOMAIN singles |->
            accessor_of(single_value_writers[find(single_value_writers,
                                                  singles[j].field)], doc_id_map)]

\* FastFieldsWriter::serialize taking the group by reference: it stays usable
GroupSerialize_borrowing(doc_id_map, n_ok, err) ==
    /\ n_serialize < 2
    /\ n_ok \in 0..Len(serialize_order)
    /\ consumed' = consumed
    /\ n_serialize' = n_serialize + 1
    /\ calls' = serialize_calls(serialize_order, n_ok, err)
    /\ result' = serialize_result(serialize_order, n_ok, err)
    /\ reported' = None
    /\ accessors' = serialize_accessors(calls', doc_id_map)
    /\ serialized' = serialized \cup
           {calls'[j].field : j \in {k \in DOMAIN calls' : calls'[k].kind = "single"}}
    /\ UNCHANGED <<schema, writers, history>>

\* FastFieldsWriter::serialize
GroupSerialize(doc_id_map, n_ok, err) ==
    /\ ~consumed
    /\ n_ok \in 0..Len(serialize_order)
    /\ consumed' = TRUE
    /\ n_serialize' = n_serialize + 1
    /\ calls' = serialize_calls(serialize_order, n_ok, err)
    /\ result' = serialize_result(serialize_order, n_ok, err)
    /\ reported' = None
    /\ accessors' = serialize_accessors(calls', doc_id_map)
    /\ serialized' = serialized \cup
           {calls'[j].field : j \in {k \in DOMAIN calls' : calls'[k].kind = "single"}}
    /\ UNCHANGED <<schema, writers, history>>

(***************************************************************************)
(* Inputs.                                                                 *)
(***************************************************************************)
OtherVal(t) == [tag |-> t, i |-> 0, u |-> MkU64(0)]

\* values a document may carry for a field of the type
SampleValues(t) ==
    CASE t = "I64" -> {I64Val(-1), I64Val(7)}
      [] t = "U64" -> {U64Val(MkU64(3)), U64Val(MkU64(8))}
      [] t = "F64" -> {F64Val(F64MinusOne), F64Val(F64TwoAndHalf)}
      [] t = "Bool" -> {BoolVal(TRUE), BoolVal(FALSE)}
      [] t = "Date" -> {DateVal(1500000), DateVal(1000001)}
      [] OTHER -> {OtherVal(t)}

FieldValues(sch) ==
    UNION {{[field |-> i - 1, value |-> v] : v \in SampleValues(sch[i].type)} :
               i \in DOMAIN sch}

\* documents with no, one or two values
Docs(sch) ==
    {<<>>} \cup {<<a>> : a \in FieldValues(sch)}
           \cup {<<a, b>> : a \in FieldValues(sch), b \in FieldValues(sch)}

\* values given to add_val directly
RawVals == {MkU64(0), MkU64(5), U64_MAX}
\* values for the k-th document of the remapping specification: one that tells
\* the position, and one that repeats
RemapVals(k) == {MkU64(10 * k), MkU64(10)}

\* the document id mappings over n documents: the permutations of 0..n-1
DocIdMappings(n) ==
    {m \in [1..n -> 0..(n - 1)] : \A i, j \in 1..n : m[i] = m[j] => i = j}

Reversal(n) == [i \in 1..n |-> n - i]

SingleValueEntries ==
    {Numeric(t, "SingleValue") : t \in {"I64", "U64", "F64", "Bool"}}
        \cup {Date("SingleValue", p) : p \in DatePrecisions}

(***************************************************************************)
(* Spec: one accumulator, fed values and documents and serialized.         *)
(***************************************************************************)
Init == \E e \in SingleValueEntries : InitWith(<<e>>)

DoAddVal == \E v \in RawVals : AddVal(0, v, MaxVals)

DoAddDocument == \E doc \in Docs(schema) : WriterAddDocument(0, doc, MaxVals)

DoSerialize ==
    \E outcome \in {"Ok"} \cup IoErrors :
        \E doc_id_map \in {None, Some(Reversal(single_value_writers[1].val_count))} :
            WriterSerialize(0, doc_id_map, outcome)

Next == DoAddVal \/ DoAddDocument \/ DoSerialize

Spec == Init /\ [][Next]_vars

(***************************************************************************)
(* SpecRemap: one u64 accumulator serialized under every document id       *)
(* mapping over 0..MaxMapDocs documents, matching its count or not.        *)
(***************************************************************************)
InitRemap == InitWith(<<Numeric("U64", "SingleValue")>>)

RemapAddVal ==
    \E v \in RemapVals(single_value_writers[1].val_count + 1) :
        AddVal(0, v, MaxMapDocs)

RemapSerialize ==
    \E n \in 0..MaxMapDocs :
        \E doc_id_map \in {None} \cup {Some(m) : m \in DocIdMappings(n)} :
            WriterSerialize(0, doc_id_map, "Ok")

NextRemap == RemapAddVal \/ RemapSerialize

SpecRemap == InitRemap /\ [][NextRemap]_vars

(***************************************************************************)
(* SpecGroup: a writer group built from a schema, fed documents and        *)
(* serialized; a lookup may serialize one accumulator on its own.          *)
(***************************************************************************)
GroupEntries ==
    {Numeric("I64", "SingleValue"), Numeric("U64", "MultiValues"),
     Date("SingleValue", "Seconds"), Facet("None"), Text("Str", FALSE),
     Text("Bytes", TRUE)}

Schemas == UNION {[1..n -> GroupEntries] : n \in 1..MaxFields}

\* a document with one value for every field, and one with no value
FullDoc(sch) ==
    [i \in DOMAIN sch |->
        [field |-> i - 1, value |-> CHOOSE v \in SampleValues(sch[i].type) : TRUE]]

GroupDocs(sch) == {<<>>, FullDoc(sch)}

InitGroup == \E sch \in Schemas : InitWith(sch)

DoGroupAddDocument == \E doc \in GroupDocs(schema) : GroupAddDocument(doc, MaxGroupDocs)

DoGroupSerialize ==
    \E doc_id_map \in {None, Some(Reversal(group_docs))} :
        \E n_ok \in 0..Len(serialize_order) :
            GroupSerialize(doc_id_map, n_ok, "WriteZero")

DoLookupSerialize ==
    \E field \in 0..(Len(schema) - 1) :
        \E outcome \in {"Ok", "WriteZero"} :
            WriterSerialize(field, None, outcome)

\* get_field_writer_mut(field).add_val(val) on an accumulator of the group
DoLookupAddVal ==
    /\ Sum(n_vals) < MaxDirectVals
    /\ \E field \in 0..(Len(schema) - 1) : AddVal(field, MkU64(5), MaxGroupDocs + 1)

NextGroup ==
    DoGroupAddDocument \/ DoGroupSerialize \/ DoLookupSerialize \/ DoLookupAddVal
        \/ MemUsage

SpecGroup == InitGroup /\ [][NextGroup]_vars

(***************************************************************************)
(* SpecSchema: from_schema over schemas of every kind of field entry; the  *)
(* group receives documents, reports its memory and hands out its          *)
(* accumulators.                                                           *)
(***************************************************************************)
SchemaEntries ==
    {Numeric(t, c) : t \in {"I64", "U64", "F64", "Bool"}, c \in Cardinalities}
        \cup {Date(c, p) : c \in {"SingleValue", "MultiValues"},
                           p \in {"Seconds", "Milliseconds"}}
        \cup {Date("None", "Seconds"), Facet("None"), Facet("MultiValues"),
              Text("JsonObject", FALSE)}
        \cup {Text(t, f) : t \in {"Str", "Bytes"}, f \in BOOLEAN}

AllSchemas == UNION {[1..n -> SchemaEntries] : n \in 1..MaxFields}

InitSchema == \E sch \in AllSchemas : InitWith(sch)

SchemaAddDocument ==
    \E doc \in {FullDoc(schema)} : GroupAddDocument(doc, MaxGroupDocs)

SchemaLookupSerialize ==
    \E field \in 0..(Len(schema) - 1) : WriterSerialize(field, None, "Ok")

NextSchema == SchemaAddDocument \/ SchemaLookupSerialize \/ MemUsage

SpecSchema == InitSchema /\ [][NextSchema]_vars

(***************************************************************************)
(* Properties.                                                             *)
(***************************************************************************)
Range(seq) == {seq[i] : i \in DOMAIN seq}

U64Min(seq) == CHOOSE m \in Range(seq) : \A x \in Range(seq) : U64Le(m, x)
U64Max(seq) == CHOOSE m \in Range(seq) : \A x \in Range(seq) : U64Le(x, m)

\* the accumulator of an accessor's field
writer_of(acc) == single_value_writers[find(single_value_writers, acc.field)]

AccessorSet == Range(accessors)

\* C1: once an accumulator has received a value, val_min and val_max are the
\* smallest and the largest of the values handed to add_val so far (unsigned
\* order, so val_min <= val_max), val_count is their number, and the buffer
\* holds them in call order.
C1_MinMaxAndOrder ==
    \A i \in DOMAIN single_value_writers :
        LET w == single_value_writers[i]
        IN  w.val_count > 0 =>
                /\ w.val_min = U64Min(recorded[i])
                /\ w.val_max = U64Max(recorded[i])
                /\ U64Le(w.val_min, w.val_max)
                /\ w.val_count = Len(recorded[i])
                /\ BlockedBitpacker_iter(w.vals) = recorded[i]

\* after 5, 3, 8: count 3, min 3, max 8, iteration 5, 3, 8
C1_Witness ==
    LET w == single_value_writers[1]
    IN  /\ recorded[1] = <<MkU64(5), MkU64(3), MkU64(8)>>
        /\ w.val_count = 3
        /\ w.val_min = MkU64(3)
        /\ w.val_max = MkU64(8)
        /\ BlockedBitpacker_iter(w.vals) = <<MkU64(5), MkU64(3), MkU64(8)>>

\* C2: an accumulator that received N add_document calls and no direct add_val
\* has val_count = N, and an accessor built from it reports num_vals = N.
C2_CountIsDocuments ==
    \A i \in DOMAIN single_value_writers :
        n_vals[i] = 0 =>
            /\ single_value_writers[i].val_count = n_docs[i]
            /\ \A acc \in AccessorSet :
                   acc.field = single_value_writers[i].field => num_vals(acc) = n_docs[i]

\* three documents, the last one without the field, then a serialization
C2_Witness ==
    /\ n_vals[1] = 0
    /\ n_docs[1] = 3
    /\ last_doc = Some(<<>>)
    /\ accessors # <<>>
    /\ \E k \in DOMAIN recorded[1] : recorded[1][k] # single_value_writers[1].val_if_missing

\* C3: the accessor of an accumulator that never received a value reports
\* count 0, min 0 and max 0; the accessor of any other accumulator reports the
\* accumulator's val_min, val_max and val_count.
C3_StatsNormalized ==
    \A acc \in AccessorSet :
        LET w == writer_of(acc)
        IN  IF Len(recorded[find(single_value_writers, acc.field)]) = 0
            THEN /\ num_vals(acc) = 0
                 /\ min_value(acc) = MkU64(0)
                 /\ max_value(acc) = MkU64(0)
            ELSE /\ num_vals(acc) = w.val_count
                 /\ min_value(acc) = w.val_min
                 /\ max_value(acc) = w.val_max

\* an empty accumulator, still in its sentinel state, was serialized
C3_Witness ==
    /\ accessors # <<>>
    /\ recorded[1] = <<>>
    /\ single_value_writers[1].val_min = U64_MAX
    /\ single_value_writers[1].val_max = MkU64(0)

\* the default stated for a field type
stated_default(type) ==
    CASE type \in {"I64", "Date"} -> i64_to_u64(0)
      [] type = "F64" -> f64_to_u64(F64Zero)
      [] type \in {"U64", "Bool"} -> MkU64(0)

\* C4: after add_document with a document that has no value for the field, the
\* last recorded value is the accumulator's val_if_missing, which for the
\* accumulators of from_schema is i64_to_u64(0) for i64 and date fields,
\* f64_to_u64(0.0) for f64 fields and 0 for u64 and bool fields.
C4_MissingDefault ==
    \A i \in DOMAIN single_value_writers :
        LET w == single_value_writers[i]
        IN  /\ w.val_if_missing = stated_default(schema[w.field + 1].type)
            /\ (IsSome(last_doc) /\ get_first(Unwrap(last_doc), w.field) = None) =>
                   w.vals[Len(w.vals)] = w.val_if_missing

\* a date accumulator recorded its default, which is not 0
C4_Witness ==
    /\ schema[1].type = "Date"
    /\ last_doc = Some(<<>>)
    /\ single_value_writers[1].vals = <<i64_to_u64(0)>>
    /\ i64_to_u64(0) = <<HalfLimb, 0, 0, 0>>

\* the mapping of the accessor, when there is one, covers the documents counted
MappingCoversCount(acc) ==
    IsSome(acc.doc_id_map) => Len(Unwrap(acc.doc_id_map)) = num_vals(acc)

\* C5: for an accessor with no mapping, or with a mapping over its count()
\* documents, iter() yields get_val(0), ..., get_val(count() - 1) in order.
C5_IterEqualsGets ==
    \A acc \in AccessorSet :
        MappingCoversCount(acc) =>
            /\ ~iter(acc).panicked
            /\ \A d \in 0..(num_vals(acc) - 1) : ~get_val(acc, MkU64(d)).panicked
            /\ iter(acc).yielded = [k \in 1..num_vals(acc) |-> get_val(acc, MkU64(k - 1)).value]

\* a mapping that moves documents, over three documents with different values
C5_Witness ==
    \E acc \in AccessorSet :
        /\ acc.doc_id_map = Some(<<2, 0, 1>>)
        /\ acc.vals = <<MkU64(10), MkU64(20), MkU64(30)>>
        /\ iter(acc).yielded = <<MkU64(30), MkU64(10), MkU64(20)>>

\* C6: with a mapping, get_val(new_doc_id) is the buffered value at position
\* get_old_doc_id(new_doc_id) and iter() yields the buffered values in the order
\* of the mapping's old ids; without one, get_val(i) is the i-th buffered value.
\* With buffer 10, 20, 30, 40 and the reversal: get_val(0) = 40, get_val(3) = 10
\* and iter() yields 40, 30, 20, 10.
C6_MappedReads ==
    \A acc \in AccessorSet :
        IF IsSome(acc.doc_id_map)
        THEN LET m == Unwrap(acc.doc_id_map)
             IN  /\ \A d \in 0..(Len(m) - 1) :
                        m[d + 1] < Len(acc.vals) =>
                            get_val(acc, MkU64(d)) = Returned(acc.vals[m[d + 1] + 1])
                 /\ (\A k \in DOMAIN m : m[k] < Len(acc.vals)) =>
                        iter(acc) = [panicked |-> FALSE,
                                     yielded |-> [k \in DOMAIN m |-> acc.vals[m[k] + 1]]]
                 /\ (acc.vals = <<MkU64(10), MkU64(20), MkU64(30), MkU64(40)>>
                     /\ m = <<3, 2, 1, 0>>) =>
                        /\ get_val(acc, MkU64(0)) = Returned(MkU64(40))
                        /\ get_val(acc, MkU64(3)) = Returned(MkU64(10))
                        /\ iter(acc).yielded =
                               <<MkU64(40), MkU64(30), MkU64(20), MkU64(10)>>
        ELSE \A d \in 0..(Len(acc.vals) - 1) :
                 get_val(acc, MkU64(d)) = Returned(acc.vals[d + 1])

\* buffer 10, 20, 30, 40 serialized under the full reversal
C6_Witness ==
    \E acc \in AccessorSet :
        /\ acc.vals = <<MkU64(10), MkU64(20), MkU64(30), MkU64(40)>>
        /\ acc.doc_id_map = Some(Reversal(4))
        /\ Reversal(4) = <<3, 2, 1, 0>>

\* C7 as stated: once an accumulator has been serialized it is not changed
\* any more and it is not serialized a second time.
C7_AccumulatorTerminal ==
    [][\A i \in DOMAIN single_value_writers :
          single_value_writers[i].field \in serialized =>
              /\ single_value_writers'[i] = single_value_writers[i]
              /\ calls' # calls =>
                     \A j \in DOMAIN calls' :
                         ~(calls'[j].kind = "single"
                           /\ calls'[j].field = single_value_writers[i].field)]_vars

\* C7, amended: FastFieldsWriter::serialize runs at most once, and after it the
\* group and every writer it holds stay as they are: nothing is added and
\* nothing is serialized again.
C7_GroupSerializeTerminal ==
    /\ [](n_serialize <= 1)
    /\ [][n_serialize >= 1 =>
              UNCHANGED <<writers, history, serialized, n_serialize, calls, result,
                          accessors>>]_vars

\* a group with an accumulator that holds a value was serialized
C7_Witness ==
    /\ n_serialize = 1
    /\ consumed
    /\ single_value_writers # <<>>
    /\ single_value_writers[1].val_count > 0
    /\ single_value_writers[1].field \in serialized

\* the writers a group holds
held_writers == Range(serialize_order)

n_writers ==
    Len(term_id_writers) + Len(single_value_writers) + Len(multi_values_writers)
        + Len(bytes_value_writers)

called(cs) == [j \in DOMAIN cs |-> [kind |-> cs[j].kind, field |-> cs[j].field]]

\* C8: FastFieldsWriter::serialize returns Ok only after one successful call
\* for every held writer; when a call fails it returns that call's error, the
\* failing call is the last one made, and no writer is called twice.
C8_AllOrFirstError ==
    consumed =>
        /\ \A j, k \in DOMAIN calls : called(calls)[j] = called(calls)[k] => j = k
        /\ Range(called(calls)) \subseteq held_writers
        /\ \A j \in DOMAIN calls :
               calls[j].outcome # "Ok" => j = Len(calls) /\ result = calls[j].outcome
        /\ result = "Ok" =>
               /\ Len(calls) = n_writers
               /\ Range(called(calls)) = held_writers
               /\ \A j \in DOMAIN calls : calls[j].outcome = "Ok"
        /\ result # "Ok" =>
               /\ result \in IoErrors
               /\ calls # <<>>
               /\ calls[Len(calls)].outcome = result

\* the first of two writers failed: the second was not serialized
C8_Witness ==
    /\ consumed
    /\ n_writers = 2
    /\ Len(calls) = 1
    /\ result = "WriteZero"
    /\ calls[1].outcome = "WriteZero"

KindRank(kind) ==
    CASE kind = "term_id" -> 1
      [] kind = "single" -> 2
      [] kind = "multi" -> 3
      [] kind = "bytes" -> 4

\* the collection from_schema puts a field entry in, "none" when it gets no writer
kind_of(field_entry) ==
    LET t == field_entry.type
        c == field_entry.cardinality
    IN  CASE t = "Facet" \/ (t = "Str" /\ field_entry.fast) -> "term_id"
          [] t \in {"I64", "U64", "F64", "Bool", "Date"} /\ c = "SingleValue" -> "single"
          [] t \in {"I64", "U64", "F64", "Bool", "Date"} /\ c = "MultiValues" -> "multi"
          [] t = "Bytes" /\ field_entry.fast -> "bytes"
          [] OTHER -> "none"

\* C9: FastFieldsWriter::serialize calls the term-ordinal writers first, then
\* the single-value accumulators, then the multi-value writers, then the bytes
\* writers, and the writers of one collection in the order of their fields in
\* the schema.
C9_GroupingOrder ==
    consumed =>
        /\ \A j \in DOMAIN calls : calls[j].kind = kind_of(schema[calls[j].field + 1])
        /\ \A j, k \in DOMAIN calls :
               j < k =>
                   \/ KindRank(calls[j].kind) < KindRank(calls[k].kind)
                   \/ /\ calls[j].kind = calls[k].kind
                      /\ calls[j].field < calls[k].field

\* a facet field declared after a single-value field is serialized before it
C9_Witness ==
    /\ consumed
    /\ result = "Ok"
    /\ Len(calls) = 2
    /\ calls[1].kind = "term_id"
    /\ calls[2].kind = "single"
    /\ calls[1].field > calls[2].field

\* C10 as stated: an accessor whose iter() runs to its end without a panic
\* yields as many values as its count() says.
C10_NoSilentTruncation ==
    \A acc \in AccessorSet :
        ~iter(acc).panicked => Len(iter(acc).yielded) = num_vals(acc)

\* document ids at and beyond an accessor's count(): the first two past the
\* end, 2^32, 2^32 + 1 and the largest u64
DocsOutOfRange(acc) ==
    {doc \in {MkU64(num_vals(acc)), MkU64(num_vals(acc) + 1), <<0, 1, 0, 0>>,
              <<0, 1, 0, 1>>, U64_MAX} :
        ~U64Lt(doc, MkU64(num_vals(acc)))}

\* C11 as stated, for an accessor with no mapping or with a mapping over its
\* count() documents: get_val(doc) with doc outside [0, count()) panics and
\* returns no value.
C11_OutOfRangePanics ==
    \A acc \in AccessorSet :
        MappingCoversCount(acc) =>
            \A doc \in DocsOutOfRange(acc) : get_val(acc, doc) = Panic

CollectionNames == {"term_id", "single", "multi", "bytes"}

collection(name) ==
    CASE name = "term_id" -> term_id_writers
      [] name = "single" -> single_value_writers
      [] name = "multi" -> multi_values_writers
      [] name = "bytes" -> bytes_value_writers

\* the writers of a field: collection name and position in the collection
writers_of_field(field) ==
    UNION {{<<name, i>> : i \in {j \in DOMAIN collection(name) :
                                     collection(name)[j].field = field}} :
           name \in CollectionNames}

\* the collections each field of the schema has a writer in
assignment ==
    [field \in 0..(Len(schema) - 1) |-> {p[1] : p \in writers_of_field(field)}]

\* C12: every field of the schema has at most one writer over the four
\* collections together, and no step of the group (add_document, mem_usage,
\* a lookup and what is done with the accumulator it returns) changes which
\* collection holds a field's writer.
C12_OneCollectionPerField ==
    /\ [](\A field \in 0..(Len(schema) - 1) :
              Cardinality(writers_of_field(field)) <= 1)
    /\ [][assignment' = assignment]_vars

\* a group with writers in two collections that received a document and
\* reported its memory
C12_Witness ==
    /\ Len(schema) = 2
    /\ assignment[0] # {}
    /\ assignment[1] # {}
    /\ assignment[0] # assignment[1]
    /\ group_docs >= 1
    /\ IsSome(reported)

\* C13: from_schema gives a single-valued I64, U64, F64, Bool or Date field an
\* accumulator in single_value_writers (a Date one with the field's precision,
\* the others with none), a multi-valued one a Numeric writer in
\* multi_values_writers, a Facet field a Facet writer in term_id_writers
\* whatever its cardinality, a fast Str field a String writer in
\* term_id_writers, a fast Bytes field a writer in bytes_value_writers, and
\* every other field no writer.
C13_FromSchemaDispatch ==
    \A i \in DOMAIN schema :
        LET e == schema[i]
            numeric == e.type \in {"I64", "U64", "F64", "Bool", "Date"}
            ws == writers_of_field(i - 1)
            w == CHOOSE p \in ws : TRUE
        IN  CASE numeric /\ e.cardinality = "SingleValue" ->
                   /\ assignment[i - 1] = {"single"}
                   /\ Cardinality(ws) = 1
                   /\ single_value_writers[w[2]].precision_opt =
                          IF e.type = "Date" THEN Some(e.precision) ELSE None
              [] numeric /\ e.cardinality = "MultiValues" ->
                   /\ assignment[i - 1] = {"multi"}
                   /\ Cardinality(ws) = 1
                   /\ multi_values_writers[w[2]].fast_field_type = "Numeric"
              [] e.type = "Facet" ->
                   /\ assignment[i - 1] = {"term_id"}
                   /\ Cardinality(ws) = 1
                   /\ term_id_writers[w[2]].fast_field_type = "Facet"
              [] e.type = "Str" /\ e.fast ->
                   /\ assignment[i - 1] = {"term_id"}
                   /\ Cardinality(ws) = 1
                   /\ term_id_writers[w[2]].fast_field_type = "String"
              [] e.type = "Bytes" /\ e.fast ->
                   /\ assignment[i - 1] = {"bytes"}
                   /\ Cardinality(ws) = 1
              [] OTHER -> ws = {}

\* a schema of a facet field declared without cardinality and a date field
\* with millisecond precision, after from_schema and one document
C13_Witness ==
    /\ Len(schema) = 2
    /\ schema[1] = Facet("None")
    /\ schema[2] = Date("SingleValue", "Milliseconds")
    /\ Len(term_id_writers) = 1
    /\ Len(single_value_writers) = 1
    /\ single_value_writers[1].precision_opt = Some("Milliseconds")
    /\ group_docs = 1

\* C14 as stated: every accumulator of a group has as many values as the
\* group received documents, so all accumulators have equal counts.
C14_CountIsGroupDocs ==
    \A i \in DOMAIN single_value_writers :
        single_value_writers[i].val_count = group_docs

\* C14: a FastFieldsWriter::add_document call advances val_count of every
\* accumulator of the group by one, and an accumulator's val_count is the
\* number of those calls plus the number of values it was given on its own
\* through get_field_writer_mut.
C14_CountIsGroupDocsPlusDirect ==
    /\ [][group_docs' = group_docs + 1 =>
              \A i \in DOMAIN single_value_writers :
                  single_value_writers'[i].val_count =
                      single_value_writers[i].val_count + 1]_vars
    /\ [](\A i \in DOMAIN single_value_writers :
              single_value_writers[i].val_count = group_docs + n_vals[i])

\* two accumulators after two documents, one of them also given a value on
\* its own
C14_Witness ==
    /\ Len(single_value_writers) = 2
    /\ group_docs = 2
    /\ single_value_writers[1].val_count = 2
    /\ single_value_writers[2].val_count = 3

within_stats(acc, v) == U64Le(min_value(acc), v) /\ U64Le(v, max_value(acc))

\* C15: for an accessor with no mapping, or with a mapping over its count()
\* documents, iter() yields count() values, and every value it yields and
\* every get_val(i) with i in [0, count()) lies in [min_value(), max_value()].
C15_ValuesWithinStats ==
    \A acc \in AccessorSet :
        MappingCoversCount(acc) =>
            /\ ~iter(acc).panicked
            /\ Len(iter(acc).yielded) = num_vals(acc)
            /\ \A k \in DOMAIN iter(acc).yielded : within_stats(acc, iter(acc).yielded[k])
            /\ \A d \in 0..(num_vals(acc) - 1) :
                   /\ ~get_val(acc, MkU64(d)).panicked
                   /\ within_stats(acc, get_val(acc, MkU64(d)).value)

\* a remapped accessor over one value, which is both extremes
C15_Witness ==
    \E acc \in AccessorSet :
        /\ IsSome(acc.doc_id_map)
        /\ MappingCoversCount(acc)
        /\ num_vals(acc) = 1
        /\ min_value(acc) = MkU64(10)
        /\ max_value(acc) = MkU64(10)
        /\ iter(acc).yielded = <<MkU64(10)>>

\* what every writer the group holds reports, collection after collection
held_mem_usage ==
    [i \in DOMAIN term_id_writers |->
         MultiValuedFastFieldWriter_mem_usage(term_id_writers[i])]
      \o [i \in DOMAIN single_value_writers |->
              IntFastFieldWriter_mem_usage(single_value_writers[i])]
      \o [i \in DOMAIN multi_values_writers |->
              MultiValuedFastFieldWriter_mem_usage(multi_values_writers[i])]
      \o [i \in DOMAIN bytes_value_writers |->
              BytesFastFieldWriter_mem_usage(bytes_value_writers[i])]

\* C16: FastFieldsWriter::mem_usage returns the sum of mem_usage of every
\* writer of the four collections, a call of it changes nothing in the group,
\* and no step on a group makes what it would return smaller.
C16_MemUsageIsSum ==
    /\ [](IsSome(reported) =>
              /\ Len(held_mem_usage) = n_writers
              /\ Unwrap(reported) = Sum(held_mem_usage))
    /\ [][IsSome(reported') => UNCHANGED <<schema, writers, consumed, history>>]_vars
    /\ [][FastFieldsWriter_mem_usage' >= FastFieldsWriter_mem_usage]_vars

\* the report of a group of an accumulator and a bytes writer after two
\* documents
C16_Witness ==
    /\ Len(single_value_writers) = 1
    /\ Len(bytes_value_writers) = 1
    /\ n_writers = 2
    /\ group_docs = 2
    /\ reported = Some(64 + 8 * 2 + 8 * 2)

\* microseconds in the unit of a precision
MicrosPer(precision) ==
    CASE precision = "Seconds" -> 1000000
      [] precision = "Milliseconds" -> 1000
      [] precision = "Microseconds" -> 1

\* the first value a document has for a field
first_value(doc, field) ==
    doc[CHOOSE k \in DOMAIN doc :
            /\ doc[k].field = field
            /\ \A j \in 1..(k - 1) : doc[j].field # field].value

has_value(doc, field) == \E k \in DOMAIN doc : doc[k].field = field

\* C17: add_document on an accumulator with a precision records, for a date
\* at or after the epoch, the encoding of the timestamp with everything below
\* the precision's unit dropped, so dates in the same unit record the same
\* value; on an accumulator without a precision it records value_to_u64 of
\* the value as it is.
C17_DateTruncated ==
    \A i \in DOMAIN single_value_writers :
        LET w == single_value_writers[i]
        IN  (IsSome(last_doc) /\ has_value(Unwrap(last_doc), w.field)) =>
                LET v == first_value(Unwrap(last_doc), w.field)
                IN  w.vals[Len(w.vals)] =
                        IF IsSome(w.precision_opt) /\ v.tag = "Date"
                        THEN i64_to_u64(v.i - (v.i % MicrosPer(Unwrap(w.precision_opt))))
                        ELSE value_to_u64(v)

\* two dates within the same second, recorded by an accumulator with the
\* precision of seconds
C17_Witness ==
    /\ schema = <<Date("SingleValue", "Seconds")>>
    /\ n_docs = <<2>>
    /\ last_doc = Some(<<[field |-> 0, value |-> DateVal(1000001)]>>)
    /\ single_value_writers[1].vals = <<i64_to_u64(1000000), i64_to_u64(1000000)>>

\* C18: add_document with a document of several values for the field records
\* one value, the encoding of the first of them, and val_count goes up by one
\* for every call.
C18_FirstValueOnly ==
    \A i \in DOMAIN single_value_writers :
        LET w == single_value_writers[i]
            several == IsSome(last_doc) /\
                       Len(SelectSeq(Unwrap(last_doc), LAMBDA fv : fv.field = w.field)) >= 2
        IN  /\ w.val_count = n_docs[i] + n_vals[i]
            /\ Len(w.vals) = w.val_count
            /\ several =>
                   LET v == first_value(Unwrap(last_doc), w.field)
                   IN  w.vals[Len(w.vals)] =
                           IF IsSome(w.precision_opt) /\ v.tag = "Date"
                           THEN i64_to_u64(v.i - (v.i % MicrosPer(Unwrap(w.precision_opt))))
                           ELSE value_to_u64(v)

\* a document with 7 and then -1 for the field: 7 alone is recorded
C18_Witness ==
    /\ last_doc = Some(<<[field |-> 0, value |-> I64Val(7)],
                         [field |-> 0, value |-> I64Val(-1)]>>)
    /\ single_value_writers[1].vals = <<i64_to_u64(7)>>
    /\ single_value_writers[1].val_count = 1

\* C19: val_min > val_max (unsigned) exactly when val_count = 0, whatever
\* values were added, 0 and u64::MAX included.
C19_InvertedIffEmpty ==
    \A i \in DOMAIN single_value_writers :
        LET w == single_value_writers[i]
        IN  U64Gt(w.val_min, w.val_max) <=> w.val_count = 0

\* an accumulator whose only value is u64::MAX, the value val_min starts at
C19_Witness ==
    /\ single_value_writers[1].vals = <<U64_MAX>>
    /\ single_value_writers[1].val_count = 1
    /\ single_value_writers[1].val_min = U64_MAX
    /\ single_value_writers[1].val_max = U64_MAX

\* C20: a step that hands an accessor to the serializer, whether the
\* serializer then returns Ok or an error, leaves every field of every
\* accumulator as it was, hands over the buffer as it is and the mapping as
\* it was given.
C20_SerializeReadOnly ==
    [][accessors' # <<>> =>
           /\ UNCHANGED <<schema, writers, consumed, history>>
           /\ \A k \in DOMAIN accessors' :
                  /\ accessors'[k].vals = writer_of(accessors'[k]).vals
                  /\ accessors'[k].doc_id_map \in
                         {None, Some(Reversal(writer_of(accessors'[k]).val_count))}]_vars

\* a serialization with a mapping that the serializer fails
C20_Witness ==
    /\ result = "WriteZero"
    /\ Len(accessors) = 1
    /\ accessors[1].doc_id_map = Some(<<1, 0>>)
    /\ single_value_writers[1].val_count = 2
    /\ single_value_writers[1].vals = accessors[1].vals

=============================================================================
